---------------------------- MODULE Spec2Model ----------------------------
(***************************************************************************)
(* State-machine model of contracts/SolarEnergyTradingFHE.sol: the record  *)
(* store (submitEncryptedTransaction), the settlement request              *)
(* (requestTransactionDecryption) and the oracle callback                  *)
(* (decryptTransaction).  Every transaction of the contract is one atomic  *)
(* step: a revert leaves the contract storage as it was.                   *)
(***************************************************************************)
EXTENDS Integers, Sequences, FiniteSets, TLC

VARIABLES
    transactionCount,        \* uint256 public transactionCount
    encryptedTransactions,   \* mapping(uint256 => EncryptedTransaction)
    decryptedTransactions,   \* mapping(uint256 => DecryptedTransaction)
    encryptedEnergyBySeller, \* mapping(string => euint32)
    sellerList,              \* string[] private sellerList
    requestToTransactionId,  \* mapping(uint256 => uint256)
    counterRequest,          \* the oracle's next request token
    submittedLog,            \* the TransactionSubmitted events, in order
    decryptedLog,            \* per id, the tokens whose callback emitted TransactionDecrypted
    writtenSellers,          \* history: every sellerId written by a settlement
    last,                    \* history: the latest call, its inputs and outcome
    delivered                \* oracle: the tokens whose callback it has delivered

vars == <<transactionCount, encryptedTransactions, decryptedTransactions,
          encryptedEnergyBySeller, sellerList, requestToTransactionId,
          counterRequest, submittedLog, decryptedLog, writtenSellers, last,
          delivered>>

\* The storage of the contract and the token counter of the oracle.
storage == <<transactionCount, encryptedTransactions, decryptedTransactions,
             encryptedEnergyBySeller, sellerList, requestToTransactionId,
             counterRequest>>

\* The history variables other than last.
logs == <<submittedLog, decryptedLog, writtenSellers>>

-----------------------------------------------------------------------------
\* Bounds of the model.

\* Number of submissions explored.
MaxRecords == 2

\* Number of decryption requests the oracle accepts.
MaxRequests == 2

\* Keys of the record mappings that the model reads and writes (0 is never
\* assigned to a record).
RecordIds == 0..MaxRecords

\* Request tokens presented to the callback.
Tokens == 1..MaxRequests

\* The ciphertext handles of the n-th submission, as
\* <<sellerId, buyerId, energyAmount, price>>: a client-side encryption
\* yields fresh handles.
FreshHandles(n) == <<10 * n + 1, 10 * n + 2, 10 * n + 3, 10 * n + 4>>

\* Decoded payloads the oracle may deliver: two well-formed ones naming
\* different sellers and one that is too short.
StringArrays ==
    { <<"alice", "bob", "10", "500">>,
      <<"carol", "dave", "7", "300">>,
      <<"carol", "bob", "7">> }

\* abi.encode of a string[].
Encode(strings) == <<"string[]", strings>>

Cleartexts == { Encode(s) : s \in StringArrays }

\* Keys of the accumulator mapping that the model reads and writes.
Sellers == { s[1] : s \in StringArrays }

\* The oracle's attestation of cleartexts for a request token.
Sign(requestId, cleartexts) == <<"kms", requestId, cleartexts>>

\* The proofs presented with a callback: the attestation of these cleartexts
\* for this token, an attestation of other cleartexts for this token (a
\* tampered payload) and an attestation for another token (a mismatched
\* proof).
ProofsFor(requestId, cleartexts) ==
    { Sign(requestId, cleartexts),
      Sign(requestId, CHOOSE c \in Cleartexts : c # cleartexts),
      Sign(CHOOSE t \in Tokens : t # requestId, cleartexts) }

-----------------------------------------------------------------------------
\* The FHE library, as the opaque capability the contract uses.

\* An uninitialized euint32 (the zero handle).
Uninitialized == [init |-> FALSE, val |-> 0]

\* An encrypted value is modelled by its cleartext.  A counter of settlements
\* stays far below 2^32 within the bounds, so no wrap-around is modelled.
asEuint32(n) == [init |-> TRUE, val |-> n]

isInitialized(h) == h.init

add(a, b) == asEuint32(a.val + b.val)

\* Mutant of checkSignatures: the proof is bound to the token only.
checkSignatures_TokenOnly(requestId, cleartexts, proof) == proof[2] = requestId

\* FHE.checkSignatures: the proof must attest these cleartexts for this token.
checkSignatures(requestId, cleartexts, proof) == proof = Sign(requestId, cleartexts)

\* abi.decode(cleartexts, (string[]))
abiDecode(cleartexts) == cleartexts[2]

-----------------------------------------------------------------------------
\* Values of the mappings.

EmptyEncrypted ==
    [id |-> 0, encryptedSellerId |-> 0, encryptedBuyerId |-> 0,
     encryptedEnergyAmount |-> 0, encryptedPrice |-> 0, timestamp |-> 0]

EmptyDecrypted ==
    [sellerId |-> "", buyerId |-> "", energyAmount |-> "", price |-> "",
     isSettled |-> FALSE]

\* A call: op is "submit", "request" or "callback"; id is the record
\* identifier the call is about; requestId the token issued or presented;
\* attested whether the proof presented attests the cleartexts presented for
\* that token; results the string[] decoded at the decoding step, <<>> when
\* the call does not reach it; retry, on a successful callback that
\* directly follows a callback with the same token rejected with
\* ProofInvalid or IndexOutOfBounds, that error, and "none" otherwise;
\* result "ok" or the error.
NoCall ==
    [op |-> "none", id |-> 0, requestId |-> 0, attested |-> FALSE,
     results |-> <<>>, retry |-> "none", result |-> "ok"]

Init ==
    /\ transactionCount = 0
    /\ encryptedTransactions = [i \in RecordIds |-> EmptyEncrypted]
    /\ decryptedTransactions = [i \in RecordIds |-> EmptyDecrypted]
    /\ encryptedEnergyBySeller = [s \in Sellers |-> Uninitialized]
    /\ sellerList = <<>>
    /\ requestToTransactionId = [t \in Tokens |-> 0]
    /\ counterRequest = 1
    /\ submittedLog = <<>>
    /\ decryptedLog = [i \in RecordIds |-> <<>>]
    /\ writtenSellers = {}
    /\ last = NoCall
    /\ delivered = {}

-----------------------------------------------------------------------------
\* submitEncryptedTransaction

\* Mutant of NewId: the counter is read before its increment.
NewId_BeforeIncrement == transactionCount

\* The identifier of the new record: transactionCount after its increment.
NewId == transactionCount + 1

\* block.timestamp of a submission: each submission is mined in a later
\* block than the previous one.
BlockTimestamps ==
    LET prev == IF submittedLog = <<>> THEN 0
                ELSE submittedLog[Len(submittedLog)].timestamp
    IN  {prev + 1}

\* The EncryptedTransaction struct built from the arguments.
NewEncrypted(id, handles, now) ==
    [id |-> id,
     encryptedSellerId |-> handles[1],
     encryptedBuyerId |-> handles[2],
     encryptedEnergyAmount |-> handles[3],
     encryptedPrice |-> handles[4],
     timestamp |-> now]

\* Mutant of StoreEncrypted: the records stored before are stamped again.
StoreEncrypted_StampsAll(id, handles, now) ==
    [i \in RecordIds |->
        IF i = id THEN NewEncrypted(id, handles, now)
        ELSE IF i \in 1..transactionCount
             THEN [encryptedTransactions[i] EXCEPT !.timestamp = now]
             ELSE encryptedTransactions[i]]

\* encryptedTransactions[newId] = EncryptedTransaction({...})
StoreEncrypted(id, handles, now) ==
    [encryptedTransactions EXCEPT ![id] = NewEncrypted(id, handles, now)]

\* Mutant of StoreEmptyProjection: every projection is emptied.
StoreEmptyProjection_EmptiesAll(id) ==
    [i \in RecordIds |-> EmptyDecrypted]

\* decryptedTransactions[newId] = DecryptedTransaction({"", "", "", "", false})
StoreEmptyProjection(id) ==
    [decryptedTransactions EXCEPT ![id] = EmptyDecrypted]

submitEncryptedTransaction(handles, now) ==
    /\ transactionCount < MaxRecords
    /\ transactionCount' = transactionCount + 1
    /\ encryptedTransactions' = StoreEncrypted(NewId, handles, now)
    /\ decryptedTransactions' = StoreEmptyProjection(NewId)
    /\ submittedLog' = Append(submittedLog, [id |-> NewId, timestamp |-> now])
    /\ last' = [NoCall EXCEPT !.op = "submit", !.id = NewId]
    /\ UNCHANGED <<encryptedEnergyBySeller, sellerList, requestToTransactionId,
                   counterRequest, decryptedLog, writtenSellers>>

Submit ==
    /\ \E now \in BlockTimestamps :
          submitEncryptedTransaction(FreshHandles(Len(submittedLog) + 1), now)
    /\ UNCHANGED delivered

-----------------------------------------------------------------------------
\* requestTransactionDecryption

\* Mutant of RequestAllowed: a record with a pending request is refused too.
RequestAllowed_NoPending(transactionId) ==
    /\ ~decryptedTransactions[transactionId].isSettled
    /\ \A t \in Tokens : requestToTransactionId[t] # transactionId

\* require(!decryptedTransactions[transactionId].isSettled, "Already settled")
RequestAllowed(transactionId) == ~decryptedTransactions[transactionId].isSettled

\* Mutant of RegisterRequest: the entries of the other tokens are dropped.
RegisterRequest_ClearsOthers(reqId, transactionId) ==
    [t \in Tokens |-> IF t = reqId THEN transactionId ELSE 0]

\* requestToTransactionId[reqId] = transactionId
RegisterRequest(reqId, transactionId) ==
    [requestToTransactionId EXCEPT ![reqId] = transactionId]

requestTransactionDecryption(transactionId) ==
    IF ~RequestAllowed(transactionId)
    THEN /\ last' = [NoCall EXCEPT !.op = "request", !.id = transactionId,
                                   !.result = "AlreadySettled"]
         /\ UNCHANGED <<storage, logs>>
    ELSE /\ counterRequest <= MaxRequests
         /\ requestToTransactionId' = RegisterRequest(counterRequest, transactionId)
         /\ counterRequest' = counterRequest + 1
         /\ last' = [NoCall EXCEPT !.op = "request", !.id = transactionId,
                                   !.requestId = counterRequest]
         /\ UNCHANGED <<transactionCount, encryptedTransactions,
                        decryptedTransactions, encryptedEnergyBySeller,
                        sellerList, logs>>

Request ==
    /\ \E transactionId \in RecordIds : requestTransactionDecryption(transactionId)
    /\ UNCHANGED delivered

-----------------------------------------------------------------------------
\* decryptTransaction

\* Mutant of KnownRequest: the token is not looked up.
KnownRequest_Unchecked(requestId) == TRUE

\* require(transactionId != 0, "Invalid request")
KnownRequest(requestId) == requestToTransactionId[requestId] # 0

\* Mutant of CallbackAllowed: the settled flag is not checked.
CallbackAllowed_Unchecked(transactionId) == TRUE

\* require(!dTxn.isSettled, "Already settled")
CallbackAllowed(transactionId) == ~decryptedTransactions[transactionId].isSettled

\* Mutant of Indexable: one string more is required.
Indexable_Five(results) == Len(results) >= 5

\* results[0..3] are read: a shorter array makes the call revert.
Indexable(results) == Len(results) >= 4

\* Mutant of CallbackResult: the proof is verified before the settled flag
\* is checked.
CallbackResult_ProofFirst(requestId, cleartexts, proof) ==
    IF ~KnownRequest(requestId) THEN "InvalidRequest"
    ELSE IF ~checkSignatures(requestId, cleartexts, proof) THEN "ProofInvalid"
    ELSE IF ~CallbackAllowed(requestToTransactionId[requestId]) THEN "AlreadySettled"
    ELSE IF ~Indexable(abiDecode(cleartexts)) THEN "IndexOutOfBounds"
    ELSE "ok"

\* The outcome of the callback: the checks in the order the code makes them.
CallbackResult(requestId, cleartexts, proof) ==
    IF ~KnownRequest(requestId) THEN "InvalidRequest"
    ELSE IF ~CallbackAllowed(requestToTransactionId[requestId]) THEN "AlreadySettled"
    ELSE IF ~checkSignatures(requestId, cleartexts, proof) THEN "ProofInvalid"
    ELSE IF ~Indexable(abiDecode(cleartexts)) THEN "IndexOutOfBounds"
    ELSE "ok"

\* Whether the call reaches abi.decode.
ReachesDecode(result) == result \in {"ok", "IndexOutOfBounds"}

\* Mutant of SettledProjection: results[3] is not written.
SettledProjection_NoPrice(results) ==
    [sellerId |-> results[1], buyerId |-> results[2],
     energyAmount |-> results[3], price |-> "", isSettled |-> TRUE]

\* Mutant of SettledProjection: the settled flag is not set.
SettledProjection_NoFlag(results) ==
    [sellerId |-> results[1], buyerId |-> results[2],
     energyAmount |-> results[3], price |-> results[4], isSettled |-> FALSE]

\* The projection written from results[0..3].
SettledProjection(results) ==
    [sellerId |-> results[1], buyerId |-> results[2],
     energyAmount |-> results[3], price |-> results[4], isSettled |-> TRUE]

\* Mutant of NeedsInit: the condition is inverted.
NeedsInit_Inverted(seller) == isInitialized(encryptedEnergyBySeller[seller])

\* FHE.isInitialized(encryptedEnergyBySeller[seller]) == false
NeedsInit(seller) == ~isInitialized(encryptedEnergyBySeller[seller])

\* Mutant of AccumulatorAfter: the accumulator is created anew every time.
AccumulatorAfter_Reset(seller) ==
    [encryptedEnergyBySeller EXCEPT ![seller] = add(asEuint32(0), asEuint32(1))]

\* acc[seller] = FHE.add(acc[seller], FHE.asEuint32(1)), after the lazy creation.
AccumulatorAfter(seller) ==
    LET start == IF NeedsInit(seller) THEN asEuint32(0)
                 ELSE encryptedEnergyBySeller[seller]
    IN  [encryptedEnergyBySeller EXCEPT ![seller] = add(start, asEuint32(1))]

\* Mutant of SellerListAfter: the seller is pushed at every settlement.
SellerListAfter_Always(seller) == Append(sellerList, seller)

\* sellerList.push(seller) on the lazy creation.
SellerListAfter(seller) ==
    IF NeedsInit(seller) THEN Append(sellerList, seller) ELSE sellerList

\* Mutant of ResolveRequest: a known token resolves to the latest record.
ResolveRequest_Latest(requestId) ==
    IF requestToTransactionId[requestId] = 0 THEN 0 ELSE transactionCount

\* uint256 transactionId = requestToTransactionId[requestId]
ResolveRequest(requestId) == requestToTransactionId[requestId]

\* Mutant of Revert: a rejected callback consumes its token.
Revert_ConsumesToken(call) ==
    /\ last' = call
    /\ requestToTransactionId' =
         [requestToTransactionId EXCEPT ![call.requestId] = 0]
    /\ UNCHANGED <<transactionCount, encryptedTransactions, decryptedTransactions,
                   encryptedEnergyBySeller, sellerList, counterRequest, logs>>

\* Mutant of Revert: the fields written before an out-of-bounds read stay
\* written.
Revert_KeepsWrites(call) ==
    /\ last' = call
    /\ decryptedTransactions' =
         IF call.result = "IndexOutOfBounds" /\ Len(call.results) >= 1
         THEN [decryptedTransactions EXCEPT ![call.id].sellerId = call.results[1]]
         ELSE decryptedTransactions
    /\ UNCHANGED <<transactionCount, encryptedTransactions, encryptedEnergyBySeller,
                   sellerList, requestToTransactionId, counterRequest, logs>>

\* A failed require, a failed verification or an out-of-bounds read reverts
\* the transaction: nothing is written.
Revert(call) ==
    /\ last' = call
    /\ UNCHANGED <<storage, logs>>

decryptTransaction(requestId, cleartexts, proof) ==
    LET transactionId == ResolveRequest(requestId)
        result == CallbackResult(requestId, cleartexts, proof)
        call == [NoCall EXCEPT
                   !.op = "callback", !.id = transactionId,
                   !.requestId = requestId,
                   !.attested = (proof = Sign(requestId, cleartexts)),
                   !.results = IF ReachesDecode(result)
                               THEN abiDecode(cleartexts) ELSE <<>>,
                   !.retry = IF /\ result = "ok"
                                /\ last.op = "callback"
                                /\ last.result \in {"ProofInvalid", "IndexOutOfBounds"}
                                /\ last.requestId = requestId
                             THEN last.result ELSE "none",
                   !.result = result]
    IN  IF result # "ok"
        THEN Revert(call)
        ELSE LET dTxn == SettledProjection(abiDecode(cleartexts))
             IN  /\ decryptedTransactions' =
                      [decryptedTransactions EXCEPT ![transactionId] = dTxn]
                 /\ encryptedEnergyBySeller' = AccumulatorAfter(dTxn.sellerId)
                 /\ sellerList' = SellerListAfter(dTxn.sellerId)
                 /\ decryptedLog' =
                      [decryptedLog EXCEPT ![transactionId] = Append(@, requestId)]
                 /\ writtenSellers' = writtenSellers \cup {dTxn.sellerId}
                 /\ last' = call
                 /\ UNCHANGED <<transactionCount, encryptedTransactions,
                                requestToTransactionId, counterRequest,
                                submittedLog>>

\* Any account may call decryptTransaction, with any arguments.
Callback ==
    /\ \E requestId \in Tokens, cleartexts \in Cleartexts :
          \E proof \in ProofsFor(requestId, cleartexts) :
              decryptTransaction(requestId, cleartexts, proof)
    /\ UNCHANGED delivered

\* The payloads the oracle produces from a record: four strings.
WellFormed == { c \in Cleartexts : Len(abiDecode(c)) = 4 }

\* The decryption oracle answers a request it accepted: once per token, it
\* calls decryptTransaction with the cleartexts and the proof that attests
\* them for that token.
OracleDeliver(requestId) ==
    /\ requestToTransactionId[requestId] # 0
    /\ requestId \notin delivered
    /\ \E cleartexts \in WellFormed :
          decryptTransaction(requestId, cleartexts, Sign(requestId, cleartexts))
    /\ delivered' = delivered \cup {requestId}

OracleCallback == \E requestId \in Tokens : OracleDeliver(requestId)

-----------------------------------------------------------------------------
\* The read-only functions.

getDecryptedTransaction(transactionId) == decryptedTransactions[transactionId]

getEncryptedEnergyBySeller(seller) == encryptedEnergyBySeller[seller]

-----------------------------------------------------------------------------
Next == Submit \/ Request \/ Callback

Spec == Init /\ [][Next]_vars

\* The contract with the oracle as the only caller of decryptTransaction,
\* and the oracle answering every request it accepted.
OracleNext == Submit \/ Request \/ OracleCallback

FairSpec ==
    /\ Init
    /\ [][OracleNext]_vars
    /\ \A requestId \in Tokens : WF_vars(OracleDeliver(requestId))

-----------------------------------------------------------------------------
\* Vocabulary of the properties.

\* The record identifiers assigned so far.
Existing == 1..transactionCount

\* The tokens the oracle has issued so far.
Issued == 1..(counterRequest - 1)

\* The step is a call of the named operation (a step that changes nothing
\* is no call).
CallStep(op) == vars' # vars /\ last'.op = op

\* The call of this step left the contract storage and the logs as they were.
NothingChanged == UNCHANGED <<storage, logs>>

Range(seq) == { seq[k] : k \in 1..Len(seq) }

\* The tokens registered for a record identifier.
TokensOf(id) == { t \in Tokens : requestToTransactionId[t] = id }

-----------------------------------------------------------------------------
\* C1: for every record identifier at most one callback succeeds, over all
\* tokens ever issued for it and every order of the operations.
C1_AtMostOneSettlement ==
    \A i \in RecordIds : Len(decryptedLog[i]) <= 1

\* C2: once the projection of an identifier is settled no later operation
\* makes it unsettled again.
C2_SettledMonotonic ==
    [][\A i \in RecordIds :
          decryptedTransactions[i].isSettled => decryptedTransactions'[i].isSettled]_vars

\* C3: a request for an identifier that names no record fails with NotFound,
\* and so every pending request maps its token to an existing record.
C3_RequestNeedsRecord ==
    /\ (last.op = "request" /\ last.id \notin Existing) => last.result = "NotFound"
    /\ \A t \in Tokens :
          requestToTransactionId[t] # 0 => requestToTransactionId[t] \in Existing

\* C4: for an existing record a request succeeds whenever the projection is
\* unsettled, whatever is already pending for the record, and registers a
\* fresh token for it; once the projection is settled every request fails
\* with AlreadySettled and changes nothing.
C4_RequestFollowsSettled ==
    [][(CallStep("request") /\ last'.id \in Existing) =>
          IF decryptedTransactions[last'.id].isSettled
          THEN last'.result = "AlreadySettled" /\ NothingChanged
          ELSE /\ last'.result = "ok"
               /\ last'.requestId \notin Issued
               /\ requestToTransactionId' =
                    [requestToTransactionId EXCEPT ![last'.requestId] = last'.id]]_vars

\* C4 witness: two requests were registered for an existing record, the
\* record was settled, and a further request has failed with AlreadySettled.
C4_Witness ==
    /\ last.op = "request" /\ last.result = "AlreadySettled"
    /\ last.id \in Existing
    /\ Cardinality(TokensOf(last.id)) >= 2

\* C5: the identifiers assigned by the submissions are 1..N in call order,
\* and the record count is the number of submissions, however requests and
\* callbacks are interleaved with them.
C5_DenseIdentifiers ==
    /\ transactionCount = Len(submittedLog)
    /\ \A k \in 1..Len(submittedLog) : submittedLog[k].id = k

\* C5 witness: two submissions with a request and a settlement in between.
C5_Witness ==
    /\ Len(submittedLog) = 2
    /\ Len(decryptedLog[1]) = 1
    /\ requestToTransactionId[1] = 1
    /\ ~decryptedTransactions[2].isSettled

\* C6: a callback whose token was never issued fails with InvalidRequest and
\* changes nothing.
C6_UnissuedTokenRejected ==
    [][(CallStep("callback") /\ last'.requestId \notin Issued) =>
          (last'.result = "InvalidRequest" /\ NothingChanged)]_vars

\* C6 witness: a callback with a token not yet issued, carrying an
\* attestation for that token, was rejected while another request is pending.
C6_Witness ==
    /\ last.op = "callback" /\ last.result = "InvalidRequest"
    /\ last.requestId \notin Issued
    /\ last.attested
    /\ Issued # {}

\* C7: a callback for a known token of an unsettled record whose proof does
\* not attest the payload for that token fails with ProofInvalid and changes
\* nothing.
C7_BadProofRejected ==
    [][(/\ CallStep("callback")
        /\ requestToTransactionId[last'.requestId] # 0
        /\ ~decryptedTransactions[requestToTransactionId[last'.requestId]].isSettled
        /\ ~last'.attested) =>
          (last'.result = "ProofInvalid" /\ NothingChanged)]_vars

\* C7 witness: a callback for a pending token of an existing unsettled record
\* was rejected with ProofInvalid.
C7_Witness ==
    /\ last.op = "callback" /\ last.result = "ProofInvalid"
    /\ last.id \in Existing
    /\ ~decryptedTransactions[last.id].isSettled

\* C8: with several tokens outstanding for a record, a callback that passes
\* verification with a payload of four strings settles the unsettled record,
\* and every callback through a token of a settled record fails with
\* AlreadySettled and changes nothing.
C8_FirstCallbackWins ==
    [][(CallStep("callback") /\ requestToTransactionId[last'.requestId] # 0) =>
          LET id == requestToTransactionId[last'.requestId]
          IN  IF decryptedTransactions[id].isSettled
              THEN last'.result = "AlreadySettled" /\ NothingChanged
              ELSE last'.attested =>
                     /\ last'.result \in {"ok", "IndexOutOfBounds"}
                     /\ last'.result = "IndexOutOfBounds" => Len(last'.results) < 4
                     /\ last'.result = "ok" => decryptedTransactions'[id].isSettled]_vars

\* C8 witness: a record with two tokens was settled through one of them and
\* the callback through the other, with a valid proof, was rejected with
\* AlreadySettled; the accumulator of the seller counts one settlement.
C8_Witness ==
    /\ last.op = "callback" /\ last.result = "AlreadySettled" /\ last.attested
    /\ last.id \in Existing
    /\ Len(decryptedLog[last.id]) = 1
    /\ decryptedLog[last.id][1] # last.requestId
    /\ getEncryptedEnergyBySeller(getDecryptedTransaction(last.id).sellerId) = asEuint32(1)

C10_KnownSellers ==
    /\ { s \in Sellers : isInitialized(encryptedEnergyBySeller[s]) } = writtenSellers
    /\ Range(sellerList) = writtenSellers

\* C10 witness: two records are settled and name two different sellers.
C10_Witness ==
    /\ Cardinality(writtenSellers) = 2
    /\ Len(sellerList) = 2
    /\ \A i \in 1..2 : i \in Existing /\ decryptedTransactions[i].isSettled

\* C11: a callback that succeeds leaves the projection of its record settled
\* with its four fields equal to the first four decoded strings and the
\* accumulator of that seller already counting it; no state shows a settled
\* projection with only some fields of a payload or with an accumulator
\* that does not count it.
C11_SettlementAtomic ==
    /\ (last.op = "callback" /\ last.result = "ok") =>
          LET dTxn == decryptedTransactions[last.id]
          IN  /\ dTxn.isSettled
              /\ dTxn.sellerId = last.results[1]
              /\ dTxn.buyerId = last.results[2]
              /\ dTxn.energyAmount = last.results[3]
              /\ dTxn.price = last.results[4]
    /\ \A i \in RecordIds :
          decryptedTransactions[i].isSettled =>
             LET dTxn == decryptedTransactions[i]
             IN  /\ \E s \in StringArrays :
                       /\ Len(s) >= 4
                       /\ <<dTxn.sellerId, dTxn.buyerId, dTxn.energyAmount, dTxn.price>>
                            = <<s[1], s[2], s[3], s[4]>>
                 /\ encryptedEnergyBySeller[dTxn.sellerId].init
                 /\ encryptedEnergyBySeller[dTxn.sellerId].val >= 1

\* C11 witness: the first settlement of an existing record, with the payload
\* ("alice", "bob", "10", "500"), has raised the accumulator of alice from
\* uninitialized to 1.
C11_Witness ==
    /\ last.op = "callback" /\ last.result = "ok"
    /\ last.id \in Existing
    /\ getDecryptedTransaction(last.id) =
         [sellerId |-> "alice", buyerId |-> "bob", energyAmount |-> "10",
          price |-> "500", isSettled |-> TRUE]
    /\ getEncryptedEnergyBySeller("alice") = asEuint32(1)
    /\ sellerList = <<"alice">>

\* C12: the projection read for an existing record that is not settled is
\* the default one: four empty strings.
C12_UnsettledIsEmpty ==
    \A i \in Existing :
        ~getDecryptedTransaction(i).isSettled =>
            getDecryptedTransaction(i) = EmptyDecrypted

\* C12 witness: a callback for an existing unsettled record has reverted
\* while reading results[3], after the assignment of sellerId, and the
\* projection is still empty.
C12_Witness ==
    /\ last.op = "callback" /\ last.result = "IndexOutOfBounds"
    /\ last.id \in Existing
    /\ getDecryptedTransaction(last.id) = EmptyDecrypted

\* C13: the accumulator of every seller counts the records whose projection
\* is settled with that sellerId.
C13_AccumulatorCountsSettled ==
    \A s \in Sellers :
        getEncryptedEnergyBySeller(s).val =
            Cardinality({ i \in RecordIds :
                            /\ decryptedTransactions[i].isSettled
                            /\ decryptedTransactions[i].sellerId = s })

\* C14: a record is requested only after it was submitted and settled only
\* after it was requested: DecryptionRequested(id) follows
\* TransactionSubmitted(id), and TransactionDecrypted(id) follows
\* DecryptionRequested(id).
C14_Lifecycle ==
    [][/\ (CallStep("request") /\ last'.result = "ok") => last'.id \in Existing
       /\ (CallStep("callback") /\ last'.result = "ok") =>
             /\ TokensOf(last'.id) # {}
             /\ last'.id \in Existing]_vars

\* C15: the four fields of a settled projection never change.
C15_SettledFieldsFrozen ==
    [][\A i \in RecordIds :
          decryptedTransactions[i].isSettled =>
             /\ decryptedTransactions'[i].sellerId = decryptedTransactions[i].sellerId
             /\ decryptedTransactions'[i].buyerId = decryptedTransactions[i].buyerId
             /\ decryptedTransactions'[i].energyAmount =
                  decryptedTransactions[i].energyAmount
             /\ decryptedTransactions'[i].price = decryptedTransactions[i].price]_vars

\* C16: the callback checks the token, then the settled flag, then the
\* proof: an unknown token gives InvalidRequest whatever the proof, a known
\* token of a settled record gives AlreadySettled whatever the proof, and a
\* proof that does not verify gives ProofInvalid only after both.
C16_CheckOrder ==
    [][CallStep("callback") =>
          LET id == requestToTransactionId[last'.requestId]
          IN  IF id = 0 THEN last'.result = "InvalidRequest"
              ELSE IF decryptedTransactions[id].isSettled
                   THEN last'.result = "AlreadySettled"
                   ELSE ~last'.attested => last'.result = "ProofInvalid"]_vars

\* C16 witness: a callback with a proof that does not verify, for a known
\* token of an existing settled record, was rejected with AlreadySettled.
C16_Witness ==
    /\ last.op = "callback" /\ last.result = "AlreadySettled"
    /\ ~last.attested
    /\ last.id \in Existing
    /\ getDecryptedTransaction(last.id).isSettled

\* C17: once the callback for a token has succeeded the token is consumed: a
\* later callback presenting it is rejected with InvalidRequest and changes
\* nothing.
C17_TokenConsumed ==
    [][(/\ CallStep("callback")
        /\ \E i \in RecordIds : last'.requestId \in Range(decryptedLog[i])) =>
          (last'.result = "InvalidRequest" /\ NothingChanged)]_vars

\* C18: a request registers its token for the record it is called with, and
\* a successful callback changes the projection of the record its token is
\* registered for and of no other record.
C18_CallbackTargetsItsRecord ==
    [][/\ (CallStep("request") /\ last'.result = "ok") =>
             requestToTransactionId'[last'.requestId] = last'.id
       /\ (CallStep("callback") /\ last'.result = "ok") =>
             LET id == requestToTransactionId[last'.requestId]
             IN  /\ decryptedTransactions'[id] # decryptedTransactions[id]
                 /\ decryptedTransactions'[id].isSettled
                 /\ \A i \in RecordIds \ {id} :
                       decryptedTransactions'[i] = decryptedTransactions[i]]_vars

\* C18 witness: requests are outstanding for records 1 and 2, in that order;
\* the callback for record 2 has arrived first, and the callback for record
\* 1 has then settled record 1 with another payload.
C18_Witness ==
    /\ last.op = "callback" /\ last.result = "ok" /\ last.id = 1
    /\ transactionCount = 2
    /\ requestToTransactionId[1] = 1 /\ requestToTransactionId[2] = 2
    /\ decryptedLog[2] = <<2>> /\ decryptedLog[1] = <<1>>
    /\ getDecryptedTransaction(1).sellerId # getDecryptedTransaction(2).sellerId

\* C20: a callback rejected with ProofInvalid consumes nothing: the token
\* stays registered and the record stays unsettled, and a callback that
\* directly follows with the same token and a proof that verifies is not
\* rejected for the token, the flag or the proof: it settles the record, or
\* fails only because its payload has fewer than four strings.
C20_RejectionKeepsToken ==
    [][/\ (CallStep("callback") /\ last'.result = "ProofInvalid") =>
             /\ NothingChanged
             /\ requestToTransactionId[last'.requestId] = last'.id
             /\ last'.id # 0
             /\ ~decryptedTransactions'[last'.id].isSettled
       /\ (/\ last.op = "callback" /\ last.result = "ProofInvalid"
           /\ CallStep("callback")
           /\ last'.requestId = last.requestId
           /\ last'.attested) =>
             /\ last'.result \in {"ok", "IndexOutOfBounds"}
             /\ last'.result = "ok" =>
                   /\ last'.retry = "ProofInvalid"
                   /\ decryptedTransactions'[last.id].isSettled
                   /\ decryptedLog'[last.id] = Append(decryptedLog[last.id], last.requestId)]_vars

\* C20 witness: the callback for an existing record was rejected with
\* ProofInvalid and the next call, with the same token and a proof that
\* verifies, has settled the record.
C20_Witness ==
    /\ last.op = "callback" /\ last.result = "ok"
    /\ last.retry = "ProofInvalid"
    /\ last.id \in Existing
    /\ getDecryptedTransaction(last.id).isSettled
    /\ decryptedLog[last.id] = <<last.requestId>>

\* ---------------------------------------------------------------------
\* The callback as a function of the storage it reads and writes, so that two
\* deliveries can be composed in either order from one state.

\* The storage decryptTransaction reads and writes.
Here ==
    [dec  |-> decryptedTransactions,
     acc  |-> encryptedEnergyBySeller,
     list |-> sellerList,
     req  |-> requestToTransactionId]

\* The checks of decryptTransaction on storage st, in the order of the code.
CallbackResultIn(st, requestId, cleartexts, proof) ==
    IF st.req[requestId] = 0 THEN "InvalidRequest"
    ELSE IF st.dec[st.req[requestId]].isSettled THEN "AlreadySettled"
    ELSE IF ~checkSignatures(requestId, cleartexts, proof) THEN "ProofInvalid"
    ELSE IF ~Indexable(abiDecode(cleartexts)) THEN "IndexOutOfBounds"
    ELSE "ok"

\* Mutant of SettleIn: a new accumulator starts from the length of the seller
\* list instead of zero.
SettleIn_CountFromList(st, transactionId, results) ==
    LET dTxn      == SettledProjection(results)
        seller    == dTxn.sellerId
        needsInit == ~isInitialized(st.acc[seller])
        start     == IF needsInit THEN asEuint32(Len(st.list)) ELSE st.acc[seller]
    IN  [st EXCEPT !.dec  = [@ EXCEPT ![transactionId] = dTxn],
                   !.acc  = [@ EXCEPT ![seller] = add(start, asEuint32(1))],
                   !.list = IF needsInit THEN Append(@, seller) ELSE @]

\* The writes of a successful decryptTransaction on storage st.
SettleIn(st, transactionId, results) ==
    LET dTxn      == SettledProjection(results)
        seller    == dTxn.sellerId
        needsInit == ~isInitialized(st.acc[seller])
        start     == IF needsInit THEN asEuint32(0) ELSE st.acc[seller]
    IN  [st EXCEPT !.dec  = [@ EXCEPT ![transactionId] = dTxn],
                   !.acc  = [@ EXCEPT ![seller] = add(start, asEuint32(1))],
                   !.list = IF needsInit THEN Append(@, seller) ELSE @]

\* decryptTransaction on storage st: the outcome and the storage it leaves.
decryptTransactionIn(st, requestId, cleartexts, proof) ==
    LET result == CallbackResultIn(st, requestId, cleartexts, proof)
    IN  [result |-> result,
         st     |-> IF result = "ok"
                    THEN SettleIn(st, st.req[requestId], abiDecode(cleartexts))
                    ELSE st]

\* Two deliveries in a row from the current storage, each with the proof of
\* its own token and payload.
Both(t1, c1, t2, c2) ==
    LET first  == decryptTransactionIn(Here, t1, c1, Sign(t1, c1))
        second == decryptTransactionIn(first.st, t2, c2, Sign(t2, c2))
    IN  [first |-> first.result, second |-> second.result, st |-> second.st]

\* Tokens of two distinct unsettled records, each with a payload of four
\* strings.
Independent(t1, c1, t2, c2) ==
    /\ requestToTransactionId[t1] # 0 /\ requestToTransactionId[t2] # 0
    /\ requestToTransactionId[t1] # requestToTransactionId[t2]
    /\ ~decryptedTransactions[requestToTransactionId[t1]].isSettled
    /\ ~decryptedTransactions[requestToTransactionId[t2]].isSettled
    /\ Indexable(abiDecode(c1)) /\ Indexable(abiDecode(c2))

\* C19: the settlements of two distinct unsettled records commute: their
\* callbacks with valid proofs succeed in either order and leave the same
\* projections, the same accumulators and the same set of listed sellers;
\* and every successful callback step of the contract is the step that
\* decryptTransactionIn computes.
C19_SettlementsCommute ==
    /\ [](\A t1, t2 \in Tokens : \A c1, c2 \in Cleartexts :
             (t1 < t2 /\ Independent(t1, c1, t2, c2)) =>
                LET ab == Both(t1, c1, t2, c2)
                    ba == Both(t2, c2, t1, c1)
                IN  /\ ab.first = "ok" /\ ab.second = "ok"
                    /\ ba.first = "ok" /\ ba.second = "ok"
                    /\ ab.st.dec = ba.st.dec
                    /\ ab.st.acc = ba.st.acc
                    /\ Range(ab.st.list) = Range(ba.st.list)
                    /\ Len(ab.st.list) = Len(ba.st.list))
    /\ [][(CallStep("callback") /\ last'.result = "ok") =>
             LET cleartexts == Encode(last'.results)
                 d == decryptTransactionIn(Here, last'.requestId, cleartexts,
                                           Sign(last'.requestId, cleartexts))
             IN  d.result = "ok" /\ Here' = d.st]_vars

\* C19 witness: tokens are outstanding for records 1 and 2, both unsettled,
\* and their settlements for two different sellers list the sellers in a
\* different order but leave the same projections and accumulators.
C19_Witness ==
    /\ transactionCount = 2
    /\ last.op = "request" /\ last.result = "ok"
    /\ \E t1, t2 \in Tokens : \E c1, c2 \in Cleartexts :
          /\ Independent(t1, c1, t2, c2)
          /\ requestToTransactionId[t1] = 1 /\ requestToTransactionId[t2] = 2
          /\ Both(t1, c1, t2, c2).st.list # Both(t2, c2, t1, c1).st.list
          /\ Both(t1, c1, t2, c2).st.dec = Both(t2, c2, t1, c1).st.dec
          /\ Both(t1, c1, t2, c2).st.acc = Both(t2, c2, t1, c1).st.acc

\* C21: a successful request registers one token that was not registered
\* before, for the identifier it was called with, and changes nothing else:
\* the count, the encrypted records, the projections, the accumulators, the
\* seller list and the entries of the other tokens are as before, and the
\* record is unsettled after it; a record becomes settled only by a successful
\* callback for it.
C21_RequestFrame ==
    [][/\ (CallStep("request") /\ last'.result = "ok") =>
             /\ requestToTransactionId[last'.requestId] = 0
             /\ requestToTransactionId' =
                  [requestToTransactionId EXCEPT ![last'.requestId] = last'.id]
             /\ UNCHANGED <<transactionCount, encryptedTransactions,
                            decryptedTransactions, encryptedEnergyBySeller,
                            sellerList>>
             /\ ~decryptedTransactions'[last'.id].isSettled
       /\ \A i \in RecordIds :
             (~decryptedTransactions[i].isSettled /\ decryptedTransactions'[i].isSettled) =>
                (last'.op = "callback" /\ last'.result = "ok" /\ last'.id = i)]_vars

\* C21 witness: with record 1 settled through token 1, a request for the
\* unsettled record 2 has registered token 2 and token 1 is still registered.
C21_Witness ==
    /\ last.op = "request" /\ last.result = "ok"
    /\ last.id = 2 /\ last.requestId = 2
    /\ transactionCount = 2
    /\ requestToTransactionId = <<1, 2>>
    /\ getDecryptedTransaction(1).isSettled
    /\ getDecryptedTransaction(2) = EmptyDecrypted
    /\ Len(sellerList) = 1

\* C22: an encrypted record is stored once and stays as stored: every
\* assigned identifier holds the four handles and the timestamp of its
\* submission, whatever was submitted, requested or called back since, and no
\* record is stored under an identifier that is not assigned.
C22_EncryptedImmutable ==
    /\ Len(submittedLog) = transactionCount
    /\ \A i \in Existing :
          /\ submittedLog[i].id = i
          /\ encryptedTransactions[i] =
                NewEncrypted(i, FreshHandles(i), submittedLog[i].timestamp)
    /\ \A i \in RecordIds \ Existing : encryptedTransactions[i] = EmptyEncrypted

\* C22 witness: after record 1 was stored, record 2 was submitted, a token
\* was registered for record 1 and its callback settled it; record 1 holds
\* what was submitted.
C22_Witness ==
    /\ transactionCount = 2
    /\ last.op = "callback" /\ last.result = "ok" /\ last.id = 1
    /\ getDecryptedTransaction(1).isSettled
    /\ submittedLog[2].timestamp > submittedLog[1].timestamp
    /\ encryptedTransactions[1] =
          NewEncrypted(1, FreshHandles(1), submittedLog[1].timestamp)

\* C23: a submission is never refused (below the bound of the model on the
\* number of records); it stores an empty projection under the identifier it
\* assigns and leaves as they were the encrypted records and the projections
\* of the identifiers assigned before, every token entry, every accumulator
\* and the seller list.
C23_SubmitFrame ==
    /\ [](transactionCount < MaxRecords => ENABLED Submit)
    /\ [][CallStep("submit") =>
             /\ last'.result = "ok"
             /\ last'.id = transactionCount'
             /\ last'.id \notin Existing
             /\ decryptedTransactions'[last'.id] = EmptyDecrypted
             /\ \A i \in Existing :
                   /\ encryptedTransactions'[i] = encryptedTransactions[i]
                   /\ decryptedTransactions'[i] = decryptedTransactions[i]
             /\ UNCHANGED <<requestToTransactionId, counterRequest,
                            encryptedEnergyBySeller, sellerList>>]_vars

\* C23 witness: with record 1 settled, its token registered and its seller
\* listed, a submission has created record 2 with an empty projection.
C23_Witness ==
    /\ last.op = "submit" /\ last.result = "ok" /\ last.id = 2
    /\ getDecryptedTransaction(2) = EmptyDecrypted
    /\ getDecryptedTransaction(1).isSettled
    /\ requestToTransactionId[1] = 1
    /\ sellerList = <<getDecryptedTransaction(1).sellerId>>
    /\ getEncryptedEnergyBySeller(getDecryptedTransaction(1).sellerId) = asEuint32(1)

\* C24: the seller list names no seller twice, and its length is the number
\* of sellers whose accumulator is initialized.
C24_NoDuplicateSeller ==
    /\ \A j, k \in 1..Len(sellerList) :
          j # k => sellerList[j] # sellerList[k]
    /\ Len(sellerList) =
          Cardinality({ s \in Sellers : isInitialized(getEncryptedEnergyBySeller(s)) })

\* C24 witness: records 1 and 2 are both settled for the same seller, whose
\* accumulator counts two settlements and who is listed once.
C24_Witness ==
    /\ transactionCount = 2
    /\ getDecryptedTransaction(1).isSettled /\ getDecryptedTransaction(2).isSettled
    /\ getDecryptedTransaction(1).sellerId = getDecryptedTransaction(2).sellerId
    /\ getEncryptedEnergyBySeller(getDecryptedTransaction(1).sellerId) = asEuint32(2)
    /\ sellerList = <<getDecryptedTransaction(1).sellerId>>

\* C26: a callback for a registered token of an unsettled record, with a
\* proof that verifies and a payload of fewer than four strings, fails and
\* writes nothing: the projection is unsettled and empty after it, the
\* accumulators, the seller list and the token entry are as before; and a
\* callback that directly follows with the same token, a proof that verifies
\* and four strings settles the record.
C26_ShortPayloadFailsWhole ==
    [][/\ (/\ CallStep("callback")
           /\ requestToTransactionId[last'.requestId] # 0
           /\ ~decryptedTransactions[requestToTransactionId[last'.requestId]].isSettled
           /\ last'.attested
           /\ Len(last'.results) < 4) =>
             /\ last'.result = "IndexOutOfBounds"
             /\ NothingChanged
             /\ decryptedTransactions'[last'.id] = EmptyDecrypted
             /\ requestToTransactionId'[last'.requestId] = last'.id
       /\ (/\ last.op = "callback" /\ last.result = "IndexOutOfBounds"
           /\ CallStep("callback")
           /\ last'.requestId = last.requestId
           /\ last'.attested
           /\ Len(last'.results) >= 4) =>
             /\ last'.result = "ok"
             /\ last'.retry = "IndexOutOfBounds"
             /\ decryptedTransactions'[last.id] = SettledProjection(last'.results)]_vars

\* C26 witness: the callback for an existing record failed on a payload of
\* three strings and the next call, with the same token and four strings,
\* has settled the record.
C26_Witness ==
    /\ last.op = "callback" /\ last.result = "ok"
    /\ last.retry = "IndexOutOfBounds"
    /\ last.id \in Existing
    /\ getDecryptedTransaction(last.id).isSettled
    /\ decryptedLog[last.id] = <<last.requestId>>

\* C25: with the oracle answering every accepted request once, with four
\* strings and the proof that attests them, a record with a token that is
\* registered and not yet answered is eventually settled; and a record
\* becomes settled only in a step in which the oracle delivers a callback.
C25_EventuallySettled ==
    /\ \A i \in RecordIds \ {0} :
          (\E t \in TokensOf(i) : t \notin delivered)
             ~> decryptedTransactions[i].isSettled
    /\ [][\A i \in RecordIds :
             (~decryptedTransactions[i].isSettled /\ decryptedTransactions'[i].isSettled) =>
                /\ last'.op = "callback"
                /\ delivered' = delivered \cup {last'.requestId}
                /\ delivered' # delivered]_vars

\* C25 witness: requests were accepted for records 1 and 2 and the oracle
\* has answered both; both records are settled.
C25_Witness ==
    /\ transactionCount = 2
    /\ requestToTransactionId = <<1, 2>>
    /\ delivered = {1, 2}
    /\ decryptedLog[1] = <<1>> /\ decryptedLog[2] = <<2>>
    /\ getDecryptedTransaction(1).isSettled /\ getDecryptedTransaction(2).isSettled

=============================================================================
